---- MODULE Spec2Model ----
(***************************************************************************)
(* Lime web server (src/src/server.rs): request-to-file resolution and     *)
(* response construction.                                                  *)
(*                                                                         *)
(* A path string is a sequence of segments (the string split at '/'), and  *)
(* a segment is a sequence of atoms (the segment split at '.'):            *)
(*   "about.html"  = << <<"about","html">> >>                              *)
(*   "about/"      = << <<"about">>, <<"">> >>                             *)
(*   "../x"        = << <<"","","">>, <<"x">> >>                           *)
(*   "/etc/x"      = << <<"">>, <<"etc">>, <<"x">> >>                      *)
(* A location of the filesystem is a canonical absolute path: a sequence   *)
(* of normal segments, <<>> being the filesystem root.                     *)
(***************************************************************************)
EXTENDS Naturals, Sequences, FiniteSets, TLC

VARIABLES fs, req

vars == <<fs, req>>

----------------------------------------------------------------------------
(* Segments and path strings *)

Seg(a) == <<a>>
Seg2(a, b) == <<a, b>>
Empty == <<"">>
Dot == <<"", "">>
DotDot == <<"", "", "">>

\* config.rs Default: pages_dir "./pages", static_dir "./static"
pages_dir == <<Dot, Seg("pages")>>
static_dir == <<Dot, Seg("static")>>

\* the working directory the relative roots are resolved against
Cwd == <<Seg("srv")>>

----------------------------------------------------------------------------
(* std::path as server.rs uses it *)

\* Path::has_root: the string begins with '/'
has_root(p) == Len(p) >= 2 /\ p[1] = Empty

\* positions of the segments Path::components yields: empty segments and
\* non-leading "." segments are skipped
CompIdx(p) == {i \in 1..Len(p) : p[i] # Empty /\ (p[i] = Dot => i = 1)}

LastIdx(p) == CHOOSE i \in CompIdx(p) : \A j \in CompIdx(p) : j <= i

\* Path::file_name is Some: the last component is a normal one
has_file_name(p) ==
    /\ CompIdx(p) # {}
    /\ p[LastIdx(p)] # Dot
    /\ p[LastIdx(p)] # DotDot

\* rsplit_file_at_dot on one file name: <<>> is None, <<e>> is Some(e)
name_extension(s) ==
    IF s = DotDot \/ Len(s) = 1 \/ (Len(s) = 2 /\ s[1] = "")
    THEN <<>>
    ELSE <<s[Len(s)]>>

file_stem(s) ==
    IF name_extension(s) = <<>> THEN s ELSE SubSeq(s, 1, Len(s) - 1)

\* Path::extension
extension(p) ==
    IF has_file_name(p) THEN name_extension(p[LastIdx(p)]) ELSE <<>>

\* PathBuf::set_extension: no file name, nothing changes; otherwise the
\* string is cut right after the file stem and "." + ext is appended
set_extension(p, ext) ==
    IF ~has_file_name(p) THEN p
    ELSE SubSeq(p, 1, LastIdx(p) - 1)
             \o << file_stem(p[LastIdx(p)]) \o <<ext>> >>

\* PathBuf::join: an absolute argument replaces the base
join(base, p) == IF has_root(p) THEN p ELSE base \o p

\* str::to_lowercase on the atoms in use
to_lowercase(a) ==
    CASE a = "HTML" -> "html"
      [] a = "CSS" -> "css"
      [] OTHER -> a

\* Path::starts_with: component-wise prefix
starts_with(full, base) ==
    /\ Len(base) <= Len(full)
    /\ SubSeq(full, 1, Len(base)) = base

\* a location written as an absolute path string
AsPath(loc) == IF loc = <<>> THEN <<Empty, Empty>> ELSE <<Empty>> \o loc

\* mime_guess::from_path(..).first_or_octet_stream()
mime_guess(p) ==
    LET e == extension(p) IN
    IF e = <<>> THEN "application/octet-stream"
    ELSE CASE to_lowercase(e[1]) = "html" -> "text/html"
           [] to_lowercase(e[1]) = "css" -> "text/css"
           [] to_lowercase(e[1]) = "txt" -> "text/plain"
           [] to_lowercase(e[1]) = "png" -> "image/png"
           [] OTHER -> "application/octet-stream"

----------------------------------------------------------------------------
(* The filesystem *)

LRoot == <<>>
LSrv == <<Seg("srv")>>
LPages == <<Seg("srv"), Seg("pages")>>
LStatic == <<Seg("srv"), Seg("static")>>
LEtc == <<Seg("etc")>>
LIndex == LPages \o <<Seg2("index", "html")>>
LAbout == LPages \o <<Seg2("about", "html")>>
LPagesNF == LPages \o <<Seg2("not-found", "html")>>
LPagesNotes == LPages \o <<Seg2("notes", "txt")>>
LStyle == LStatic \o <<Seg2("style", "css")>>
LStaticNotes == LStatic \o <<Seg2("notes", "txt")>>
LStaticNF == LStatic \o <<Seg2("not-found", "html")>>
LLogo == LStatic \o <<Seg2("logo", "png")>>
LSecret == LEtc \o <<Seg2("secret", "txt")>>

Locs == {LSrv, LPages, LStatic, LEtc, LIndex, LAbout, LPagesNF, LPagesNotes,
         LStyle, LStaticNotes, LStaticNF, LLogo, LSecret}

\* perm: the process may read the file; utf8: its bytes are valid UTF-8
NoNode == [kind |-> "none", perm |-> FALSE, utf8 |-> FALSE, target |-> <<>>]
DirNode == [kind |-> "dir", perm |-> TRUE, utf8 |-> FALSE, target |-> <<>>]
FileNode(perm, utf8) ==
    [kind |-> "file", perm |-> perm, utf8 |-> utf8, target |-> <<>>]
LinkNode(t) == [kind |-> "link", perm |-> TRUE, utf8 |-> FALSE, target |-> t]

Parent(loc) == IF loc = <<>> THEN <<>> ELSE SubSeq(loc, 1, Len(loc) - 1)

KindAt(f, loc) ==
    IF loc = <<>> THEN "dir"
    ELSE IF loc \in Locs THEN f[loc].kind ELSE "none"

\* realpath(3): walk the segments from cur, following symbolic links
RECURSIVE Walk(_, _, _)
Walk(f, cur, rest) ==
    IF rest = <<>> THEN [ok |-> TRUE, loc |-> cur]
    ELSE IF KindAt(f, cur) # "dir" THEN [ok |-> FALSE, loc |-> <<>>]
    ELSE LET s == Head(rest) IN
         IF s = Empty \/ s = Dot THEN Walk(f, cur, Tail(rest))
         ELSE IF s = DotDot THEN Walk(f, Parent(cur), Tail(rest))
         ELSE LET child == cur \o <<s>> IN
              IF KindAt(f, child) = "none" THEN [ok |-> FALSE, loc |-> <<>>]
              ELSE IF KindAt(f, child) = "link"
                   THEN Walk(f, <<>>, f[child].target \o Tail(rest))
              ELSE Walk(f, child, Tail(rest))

\* fs::canonicalize
canonicalize(f, p) ==
    IF has_root(p) THEN Walk(f, <<>>, Tail(p)) ELSE Walk(f, Cwd, p)

\* Path::exists: the path resolves (symbolic links followed)
exists(f, p) == canonicalize(f, p).ok

\* fs::metadata(..).is_dir()
is_dir(f, p) == canonicalize(f, p).ok /\ KindAt(f, canonicalize(f, p).loc) = "dir"

\* fs::read: Ok for a regular file the process may read
read(f, p) ==
    /\ canonicalize(f, p).ok
    /\ KindAt(f, canonicalize(f, p).loc) = "file"
    /\ f[canonicalize(f, p).loc].perm

\* fs::read_to_string: the bytes must also be valid UTF-8
read_to_string(f, p) == read(f, p) /\ f[canonicalize(f, p).loc].utf8

\* the bytes read: the content of a file is named by the file's location
ReadLoc(f, p) == canonicalize(f, p).loc

----------------------------------------------------------------------------
(* Responses *)

HTML_NOT_FOUND == "HTML_NOT_FOUND"
HTML_INTERNAL_ERROR == "HTML_INTERNAL_ERROR"
HTML_DEFAULT_INDEX == "HTML_DEFAULT_INDEX"

\* a body is one of the pages compiled into the binary, or the bytes of
\* the file at a location
BuiltIn(page) == [src |-> "builtin", page |-> page, loc |-> <<>>]
Disk(loc) == [src |-> "disk", page |-> "", loc |-> loc]

Response(status, ctype, body) ==
    [status |-> status, ctype |-> ctype, body |-> body]

NoResponse == Response(0, "", BuiltIn(""))

----------------------------------------------------------------------------
(* One request: the handler's locals and its position *)

Reqs == {1, 2}

IdleReq ==
    [pc |-> "idle", route |-> "", path |-> <<>>, file_path |-> <<>>,
     base_dir |-> <<>>, is_text |-> FALSE, base_canonical |-> <<>>,
     full_canonical |-> <<>>, cause |-> "", nf_failed |-> FALSE,
     resp |-> NoResponse]

OffReq == [IdleReq EXCEPT !.pc = "off"]

Done(q, resp) == [q EXCEPT !.pc = "done", !.resp = resp]

\* return not_found(base_dir).await, from the place `cause`
ToNotFound(q, cause) == [q EXCEPT !.pc = "nf_exists", !.cause = cause]

\* return internal_error(base_dir).await, from the place `cause`
ToInternalError(q, cause) ==
    [q EXCEPT !.pc = "ie_exists",
              !.cause = IF q.cause = "" THEN cause ELSE q.cause]

\* the call serve_file(file_path, base_dir, is_text)
serve_file(q, file_path, base_dir, is_text) ==
    [q EXCEPT !.pc = "canon_base", !.file_path = file_path,
              !.base_dir = base_dir, !.is_text = is_text]

\* serve_html without the set_extension("html") step
serve_html_no_extension(q, path, base_dir) ==
    serve_file(q, join(base_dir, path), base_dir, TRUE)

\* serve_html
serve_html(q, path, base_dir) ==
    LET joined == join(base_dir, path)
        html_path == IF extension(joined) = <<>>
                     THEN set_extension(joined, "html") ELSE joined
    IN serve_file(q, html_path, base_dir, TRUE)

\* the extension compared without to_lowercase
wildcard_extension_case_sensitive(path) ==
    IF extension(path) = <<>> THEN "html" ELSE extension(path)[1]

\* the extension handle_wildcard dispatches on
wildcard_extension(path) ==
    IF extension(path) = <<>> THEN "html" ELSE to_lowercase(extension(path)[1])

\* handle_wildcard up to its first await
handle_wildcard(q, path) ==
    LET q1 == [q EXCEPT !.route = "wildcard", !.path = path] IN
    IF wildcard_extension(path) # "html"
    THEN serve_file(q1, join(static_dir, path), static_dir, FALSE)
    ELSE serve_html(q1, path, pages_dir)

IndexPath == join(pages_dir, <<Seg2("index", "html")>>)

\* handle_index answering a missing index.html through not_found
handle_index_no_default(f, q) ==
    IF ~exists(f, IndexPath)
    THEN ToNotFound([q EXCEPT !.base_dir = pages_dir], "canon_fail")
    ELSE serve_file(q, IndexPath, pages_dir, TRUE)

\* handle_index
handle_index(f, q) ==
    IF ~exists(f, IndexPath)
    THEN Done(q, Response(200, "text/html", BuiltIn(HTML_DEFAULT_INDEX)))
    ELSE serve_file(q, IndexPath, pages_dir, TRUE)

\* serve_file: canonicalize(base_dir)
serve_file_base_canonical(f, q) ==
    IF ~canonicalize(f, q.base_dir).ok
    THEN ToInternalError(q, "base_fail")
    ELSE [q EXCEPT !.pc = "canon_file",
                   !.base_canonical = canonicalize(f, q.base_dir).loc]

\* serve_file: canonicalize(file_path) and the starts_with guard
serve_file_full_canonical(f, q) ==
    LET c == canonicalize(f, q.file_path) IN
    IF ~c.ok THEN ToNotFound(q, "canon_fail")
    ELSE IF ~starts_with(c.loc, q.base_canonical)
         THEN ToNotFound([q EXCEPT !.full_canonical = c.loc], "traversal")
    ELSE [q EXCEPT !.pc = "metadata", !.full_canonical = c.loc]

\* serve_file: metadata(full_canonical) and the is_dir guard
serve_file_metadata(f, q) ==
    IF ~exists(f, AsPath(q.full_canonical)) THEN ToNotFound(q, "meta_fail")
    ELSE IF is_dir(f, AsPath(q.full_canonical)) THEN ToNotFound(q, "is_dir")
    ELSE [q EXCEPT !.pc = "read"]

\* serve_file: read_to_string / read of full_canonical, and the response
serve_file_content(f, q) ==
    IF ~(IF q.is_text THEN read_to_string(f, AsPath(q.full_canonical))
                      ELSE read(f, AsPath(q.full_canonical)))
    THEN ToInternalError(q, "read_fail")
    ELSE Done(q, Response(200, mime_guess(AsPath(q.full_canonical)),
                          Disk(ReadLoc(f, AsPath(q.full_canonical)))))

not_found_html(q) == join(q.base_dir, <<Seg2("not-found", "html")>>)

\* not_found: the exists() test
not_found(f, q) ==
    IF ~exists(f, not_found_html(q))
    THEN Done(q, Response(404, "text/html", BuiltIn(HTML_NOT_FOUND)))
    ELSE [q EXCEPT !.pc = "nf_read"]

\* not_found: read_to_string of the override
not_found_content(f, q) ==
    IF ~read_to_string(f, not_found_html(q))
    THEN ToInternalError([q EXCEPT !.nf_failed = TRUE], "nf_read_fail")
    ELSE Done(q, Response(404, "text/html", Disk(ReadLoc(f, not_found_html(q)))))

\* default_internal_error
default_internal_error(q) ==
    Done(q, Response(500, "text/html", BuiltIn(HTML_INTERNAL_ERROR)))

\* internal_error: the exists() test
internal_error(f, q) ==
    IF ~exists(f, not_found_html(q))
    THEN default_internal_error(q)
    ELSE [q EXCEPT !.pc = "ie_read"]

\* internal_error answering 500 with the content of not-found.html
internal_error_content_500(f, q) ==
    IF ~read_to_string(f, not_found_html(q))
    THEN default_internal_error(q)
    ELSE Done(q, Response(500, "text/html", Disk(ReadLoc(f, not_found_html(q)))))

\* internal_error going back to not_found when the read fails
internal_error_content_retry(f, q) ==
    IF ~read_to_string(f, not_found_html(q))
    THEN [q EXCEPT !.pc = "nf_exists"]
    ELSE Done(q, Response(404, "text/html", Disk(ReadLoc(f, not_found_html(q)))))

\* internal_error: read_to_string of not-found.html
internal_error_content(f, q) ==
    IF ~read_to_string(f, not_found_html(q))
    THEN default_internal_error(q)
    ELSE Done(q, Response(404, "text/html", Disk(ReadLoc(f, not_found_html(q)))))

\* one step of a handler, from its position
StepReq(f, q) ==
    CASE q.pc = "index_exists" -> handle_index(f, q)
      [] q.pc = "canon_base" -> serve_file_base_canonical(f, q)
      [] q.pc = "canon_file" -> serve_file_full_canonical(f, q)
      [] q.pc = "metadata" -> serve_file_metadata(f, q)
      [] q.pc = "read" -> serve_file_content(f, q)
      [] q.pc = "nf_exists" -> not_found(f, q)
      [] q.pc = "nf_read" -> not_found_content(f, q)
      [] q.pc = "ie_exists" -> internal_error(f, q)
      [] q.pc = "ie_read" -> internal_error_content(f, q)
      [] OTHER -> q

\* a handler run to its response on a filesystem that does not change
RECURSIVE Run(_, _)
Run(f, q) == IF q.pc \in {"done", "idle", "off"} THEN q ELSE Run(f, StepReq(f, q))

\* the response to GET /<path> on an unchanging filesystem
WildcardResponse(f, path) == Run(f, handle_wildcard(IdleReq, path)).resp

\* the response to GET / on an unchanging filesystem
IndexResponse(f) ==
    Run(f, [IdleReq EXCEPT !.pc = "index_exists", !.route = "index"]).resp

----------------------------------------------------------------------------
(* The states of the filesystem *)

TextFile == FileNode(TRUE, TRUE)
BinaryFile == FileNode(TRUE, FALSE)
Unreadable == FileNode(FALSE, TRUE)

\* the entries that change while the server runs
Mutable == {LIndex, LAbout, LPagesNF, LStyle, LStaticNF}

\* where a symbolic link at an entry may point: files that stay in place
LinkTargets(l) ==
    CASE l = LAbout -> {LSecret, LPagesNotes}
      [] l = LPagesNF -> {LSecret}
      [] l = LStyle -> {LSecret, LStaticNotes}
      [] OTHER -> {}

\* entries that may be unreadable, hold non-UTF-8 bytes, be a directory
ChmodLocs == {LAbout, LPagesNF, LStyle, LStaticNF}
BinaryLocs == {LAbout}
DirLocs == {LIndex}

Fixed(l) ==
    CASE l \in {LSrv, LPages, LStatic, LEtc} -> DirNode
      [] l \in {LPagesNotes, LStaticNotes, LSecret} -> TextFile
      [] l = LLogo -> BinaryFile
      [] OTHER -> NoNode

Options(l) ==
    {NoNode, TextFile}
        \cup (IF l \in ChmodLocs THEN {Unreadable} ELSE {})
        \cup (IF l \in BinaryLocs THEN {BinaryFile} ELSE {})
        \cup (IF l \in DirLocs THEN {DirNode} ELSE {})
        \cup {LinkNode(t) : t \in LinkTargets(l)}

MkFs(idx, about, pnf, style, snf) ==
    [l \in Locs |->
        CASE l = LIndex -> idx
          [] l = LAbout -> about
          [] l = LPagesNF -> pnf
          [] l = LStyle -> style
          [] l = LStaticNF -> snf
          [] OTHER -> Fixed(l)]

\* the pages root in place, with any content
RunningFs ==
    {MkFs(idx, about, pnf, style, snf) :
        idx \in Options(LIndex), about \in Options(LAbout),
        pnf \in Options(LPagesNF), style \in Options(LStyle),
        snf \in Options(LStaticNF)}

\* the configured pages root missing
NoPagesFs ==
    {[MkFs(NoNode, NoNode, NoNode, style, snf)
         EXCEPT ![LPages] = NoNode, ![LPagesNotes] = NoNode] :
        style \in Options(LStyle), snf \in Options(LStaticNF)}

InitFs == RunningFs \cup NoPagesFs

\* the filesystems two concurrent requests are run against
ConcFs ==
    {MkFs(idx, about, pnf, TextFile, NoNode) :
        idx \in {NoNode, TextFile},
        about \in {NoNode, TextFile, Unreadable, LinkNode(LSecret)},
        pnf \in {NoNode, TextFile, Unreadable}}

----------------------------------------------------------------------------
(* The request paths the router hands to handle_wildcard *)

ReqPaths ==
    { <<Seg("about")>>,                                \* about
      <<Seg2("about", "html")>>,                       \* about.html
      <<Seg2("about", "HTML")>>,                       \* about.HTML
      <<Seg2("about", "")>>,                           \* about.
      <<Seg("about"), Empty>>,                         \* about/
      <<Seg("about"), Seg2("", "html")>>,              \* about/.html
      <<Seg("index")>>,                                \* index
      <<Seg2("index", "html")>>,                       \* index.html
      <<Seg("missing-page")>>,                         \* missing-page
      <<Seg2("style", "css")>>,                        \* style.css
      <<Seg2("missing", "css")>>,                      \* missing.css
      <<Seg2("logo", "png")>>,                         \* logo.png
      <<DotDot>>,                                      \* ..
      <<DotDot, DotDot, Seg("etc"), Seg2("secret", "txt")>>,  \* ../../etc/secret.txt
      <<Empty, Seg("etc"), Seg2("secret", "txt")>> }   \* /etc/secret.txt

----------------------------------------------------------------------------
(* Actions *)

\* the root of a request kept in a place all requests share
SetShared(r, q) ==
    req' = [o \in Reqs |->
               IF o = r THEN q
               ELSE IF req[o].pc \in {"idle", "off", "done"} THEN req[o]
               ELSE [req[o] EXCEPT !.base_dir = q.base_dir]]

Set(r, q) == req' = [req EXCEPT ![r] = q]

\* the router dispatches GET / to handle_index
ArriveIndex(r) ==
    /\ req[r].pc = "idle"
    /\ Set(r, [IdleReq EXCEPT !.pc = "index_exists", !.route = "index"])
    /\ UNCHANGED fs

\* the router dispatches GET /<path> to handle_wildcard
ArriveWildcard(r) ==
    /\ req[r].pc = "idle"
    /\ \E path \in ReqPaths : Set(r, handle_wildcard(IdleReq, path))
    /\ UNCHANGED fs

\* handle_index: the exists() test on <pages>/index.html
IndexExistsStep(r) ==
    /\ req[r].pc = "index_exists"
    /\ Set(r, handle_index(fs, req[r]))
    /\ UNCHANGED fs

\* serve_file: canonicalize(base_dir)
CanonBaseStep(r) ==
    /\ req[r].pc = "canon_base"
    /\ Set(r, serve_file_base_canonical(fs, req[r]))
    /\ UNCHANGED fs

\* serve_file: canonicalize(file_path), starts_with guard
CanonFileStep(r) ==
    /\ req[r].pc = "canon_file"
    /\ Set(r, serve_file_full_canonical(fs, req[r]))
    /\ UNCHANGED fs

\* serve_file: metadata(full_canonical), is_dir guard
MetadataStep(r) ==
    /\ req[r].pc = "metadata"
    /\ Set(r, serve_file_metadata(fs, req[r]))
    /\ UNCHANGED fs

\* serve_file: the read and the 200 response
ReadFileStep(r) ==
    /\ req[r].pc = "read"
    /\ Set(r, serve_file_content(fs, req[r]))
    /\ UNCHANGED fs

\* not_found: the exists() test
NotFoundExistsStep(r) ==
    /\ req[r].pc = "nf_exists"
    /\ Set(r, not_found(fs, req[r]))
    /\ UNCHANGED fs

\* not_found: the read of the override
NotFoundReadStep(r) ==
    /\ req[r].pc = "nf_read"
    /\ Set(r, not_found_content(fs, req[r]))
    /\ UNCHANGED fs

\* internal_error: the exists() test
InternalErrorExistsStep(r) ==
    /\ req[r].pc = "ie_exists"
    /\ Set(r, internal_error(fs, req[r]))
    /\ UNCHANGED fs

\* internal_error: the read of not-found.html
InternalErrorReadStep(r) ==
    /\ req[r].pc = "ie_read"
    /\ Set(r, internal_error_content(fs, req[r]))
    /\ UNCHANGED fs

\* the response is sent and the request's state dropped
Respond(r) ==
    /\ req[r].pc = "done"
    /\ Set(r, IdleReq)
    /\ UNCHANGED fs

\* the environment changes one entry of a directory that exists
EnvSet(l, n) ==
    /\ KindAt(fs, Parent(l)) = "dir"
    /\ fs' = [fs EXCEPT ![l] = n]
    /\ UNCHANGED req

EnvRemove ==
    \E l \in Mutable : fs[l].kind # "none" /\ EnvSet(l, NoNode)

EnvWrite ==
    \E l \in Mutable : \E n \in Options(l) :
        fs[l].kind = "none" /\ n.kind = "file" /\ n.perm /\ EnvSet(l, n)

EnvChmod ==
    \E l \in ChmodLocs :
        /\ fs[l].kind = "file" /\ fs[l].utf8
        /\ EnvSet(l, FileNode(~fs[l].perm, TRUE))

EnvSymlink ==
    \E l \in Mutable : \E t \in LinkTargets(l) :
        fs[l].kind = "none" /\ EnvSet(l, LinkNode(t))

EnvMkdir ==
    \E l \in DirLocs : fs[l].kind = "none" /\ EnvSet(l, DirNode)

\* a prepared directory renamed onto the missing pages root
EnvDeploy ==
    /\ fs[LPages].kind = "none"
    /\ fs' = [fs EXCEPT ![LPages] = DirNode, ![LPagesNotes] = TextFile]
    /\ UNCHANGED req

Handler(r) ==
    \/ ArriveIndex(r)
    \/ ArriveWildcard(r)
    \/ IndexExistsStep(r)
    \/ CanonBaseStep(r)
    \/ CanonFileStep(r)
    \/ MetadataStep(r)
    \/ ReadFileStep(r)
    \/ NotFoundExistsStep(r)
    \/ NotFoundReadStep(r)
    \/ InternalErrorExistsStep(r)
    \/ InternalErrorReadStep(r)
    \/ Respond(r)

Env == EnvRemove \/ EnvWrite \/ EnvChmod \/ EnvSymlink \/ EnvMkdir \/ EnvDeploy

\* one request at a time, on a filesystem that changes under the server
Init ==
    /\ fs \in InitFs
    /\ req = [r \in Reqs |-> IF r = 1 THEN IdleReq ELSE OffReq]

Next == (\E r \in Reqs : Handler(r)) \/ Env

Spec == Init /\ [][Next]_vars

\* one request at a time, on a filesystem that does not change
NextStatic == \E r \in Reqs : Handler(r)

SpecStatic == Init /\ [][NextStatic]_vars

\* two requests in flight at once, on a filesystem that does not change
InitConc ==
    /\ fs \in ConcFs
    /\ req = [r \in Reqs |-> IdleReq]

SpecConc == InitConc /\ [][NextStatic]_vars

----------------------------------------------------------------------------
(* Properties *)

Finished(r) == req[r].pc = "done"

DefaultIndexResponse == Response(200, "text/html", BuiltIn(HTML_DEFAULT_INDEX))
BuiltInNotFound == Response(404, "text/html", BuiltIn(HTML_NOT_FOUND))

\* C1: every 200 response of serve_file carries the bytes of a file that
\* lies under the canonicalized root selected for the request.
C1_BodyInsideRoot ==
    \A r \in Reqs :
        (Finished(r) /\ req[r].resp.status = 200 /\ req[r].resp.body.src = "disk")
            => starts_with(req[r].resp.body.loc, req[r].base_canonical)

\* C2: a request whose candidate path canonicalizes outside the selected
\* root ends in 404, never in 500 and never with the outside file as body.
C2_TraversalIs404 ==
    \A r \in Reqs :
        (Finished(r) /\ req[r].cause = "traversal")
            => /\ req[r].resp.status = 404
               /\ req[r].resp.body # Disk(req[r].full_canonical)

\* C3: GET / with <pages>/index.html absent is answered 200 with the
\* built-in landing page; with index.html present it goes to serve_file on
\* <pages>/index.html, a text read with the pages root as base.
C3_IndexRoute ==
    [][\A r \in Reqs :
          (req[r].pc = "index_exists" /\ req'[r] # req[r]) =>
              IF fs[LIndex].kind = "none"
              THEN /\ req'[r].pc = "done"
                   /\ req'[r].resp = DefaultIndexResponse
              ELSE /\ req'[r].pc = "canon_base"
                   /\ req'[r].file_path = <<Dot, Seg("pages"), Seg2("index", "html")>>
                   /\ req'[r].base_dir = pages_dir
                   /\ req'[r].is_text]_vars

C3_Witness ==
    \E r \in Reqs :
        /\ Finished(r) /\ req[r].route = "index"
        /\ fs[LIndex].kind = "none"
        /\ req[r].resp = DefaultIndexResponse

\* C4: a request whose target does not exist under the selected root ends
\* in 404 with the not-found page (override content or built-in) as body.
C4_MissingIs404 ==
    \A r \in Reqs :
        (Finished(r) /\ req[r].cause = "canon_fail")
            => /\ req[r].resp.status = 404
               /\ \/ req[r].resp.body = BuiltIn(HTML_NOT_FOUND)
                  \/ req[r].resp.body.src = "disk"

\* C5: a read that fails after the guards passed ends in 500, with or
\* without a not-found.html in the root.
C5_ReadFailureIs500 ==
    \A r \in Reqs :
        (Finished(r) /\ req[r].cause = "read_fail") => req[r].resp.status = 500

\* C6: when the read of the not-found.html override fails, the response is
\* still 404 with the built-in not-found page.
C6_OverrideFailureStays404 ==
    \A r \in Reqs :
        (Finished(r) /\ req[r].nf_failed) => req[r].resp = BuiltInNotFound

\* C7: on an unchanged filesystem, a path with a non-html extension that
\* resolves to a readable regular file inside the static root is answered
\* 200 with the MIME type of the requested extension and the bytes of that
\* file, symbolic links included.
C7_StaticAsset ==
    \A r \in Reqs :
        LET c == canonicalize(fs, join(static_dir, req[r].path)) IN
        (/\ Finished(r) /\ req[r].route = "wildcard"
         /\ wildcard_extension(req[r].path) # "html"
         /\ c.ok
         /\ starts_with(c.loc, LStatic)
         /\ read(fs, AsPath(c.loc)))
            => req[r].resp = Response(200, mime_guess(req[r].path), Disk(c.loc))

\* C8: every 200 response to a text request has the fixed Content-Type
\* text/html; charset=utf-8.
C8_TextContentType ==
    \A r \in Reqs :
        (Finished(r) /\ req[r].is_text /\ req[r].resp.status = 200)
            => req[r].resp.ctype = "text/html; charset=utf-8"

\* the request path with ".html" appended to the string
AppendHtml(p) == SubSeq(p, 1, Len(p) - 1) \o <<p[Len(p)] \o <<"html">>>>

NormalName(s) == s \notin {Empty, Dot, DotDot}

AboutPath == <<Seg("about")>>
AboutHtmlPath == <<Seg2("about", "html")>>

Extensionless(r) ==
    Finished(r) /\ req[r].route = "wildcard" /\ extension(req[r].path) = <<>>

\* C9 as claimed: on an unchanged filesystem every extensionless path p
\* gets the response of p + ".html".
C9_AnyExtensionless ==
    \A r \in Reqs :
        Extensionless(r)
            => req[r].resp = WildcardResponse(fs, AppendHtml(req[r].path))

\* C9 as amended: on an unchanged filesystem, /about and /about.html with
\* a readable <pages>/about.html both get 200 with the same body and
\* Content-Type, and every extensionless path p whose last segment is a
\* file name (not empty, not "." and not "..") gets the response of
\* p + ".html".
C9_ExtensionlessSameAsHtml ==
    \A r \in Reqs :
        /\ (Finished(r) /\ req[r].path = AboutPath /\ fs[LAbout] = TextFile)
               => /\ req[r].resp.status = 200
                  /\ req[r].resp.body = Disk(LAbout)
                  /\ WildcardResponse(fs, AboutHtmlPath) = req[r].resp
        /\ (Extensionless(r) /\ NormalName(req[r].path[Len(req[r].path)]))
               => req[r].resp = WildcardResponse(fs, AppendHtml(req[r].path))

C9_Witness ==
    \E r \in Reqs :
        /\ Finished(r) /\ req[r].path = AboutPath
        /\ fs[LAbout] = TextFile
        /\ req[r].resp.status = 200
        /\ req[r].resp = WildcardResponse(fs, AboutHtmlPath)

\* C10: a request whose canonical target is a directory ends in 404.
C10_DirectoryIs404 ==
    \A r \in Reqs :
        (Finished(r) /\ req[r].cause = "is_dir") => req[r].resp.status = 404

InFlight(r) == req[r].pc \notin {"idle", "off", "index_exists"}

\* the spellings of the extension html among the request paths
HtmlSpellings == {"html", "HTML"}

HasHtmlExtension(p) == extension(p) # <<>> /\ extension(p)[1] \in HtmlSpellings
HasOtherExtension(p) == extension(p) # <<>> /\ extension(p)[1] \notin HtmlSpellings

C12_RootFailureIs500 ==
    \A r \in Reqs :
        req[r].cause = "base_fail" =>
            /\ req[r].full_canonical = <<>>
            /\ Finished(r) => req[r].resp.status = 500

\* the number of awaits a request at this position has at most before it
\* holds its response
Rank(pc) ==
    CASE pc = "done" -> 0
      [] pc = "ie_read" -> 1
      [] pc = "ie_exists" -> 2
      [] pc = "nf_read" -> 3
      [] pc = "nf_exists" -> 4
      [] pc = "read" -> 5
      [] pc = "metadata" -> 6
      [] pc = "canon_file" -> 7
      [] pc = "canon_base" -> 8
      [] pc = "index_exists" -> 9
      [] OTHER -> 10

\* a request in flight can take its next step whatever the filesystem holds,
\* has no response yet, and a finished one has one of the three statuses
C13_Progress ==
    \A r \in Reqs :
        /\ InFlight(r) /\ ~Finished(r) =>
              (ENABLED Handler(r)) /\ req[r].resp = NoResponse
        /\ Finished(r) => req[r].resp.status \in {200, 404, 500}

\* every step of a request moves it strictly closer to its response
C13_Decrease ==
    \A r \in Reqs :
        (req'[r] # req[r] /\ ~Finished(r)) =>
            Rank(req'[r].pc) < Rank(req[r].pc)

\* C13: every request terminates with exactly one response whose status is
\* 200, 404 or 500, whatever the filesystem does: each step of the chain
\* serve_file -> not_found -> internal_error -> default_internal_error is
\* enabled and strictly decreases the number of steps left, so the chain
\* has no cycle and no path ends without a response.
C13_Terminates == []C13_Progress /\ [][C13_Decrease]_vars

\* the whole chain walked: the override failed in not_found and again in
\* internal_error
C13_Witness ==
    \E r \in Reqs :
        /\ Finished(r)
        /\ req[r].cause \in {"canon_fail", "traversal", "meta_fail", "is_dir"}
        /\ req[r].nf_failed
        /\ req[r].resp = Response(500, "text/html", BuiltIn(HTML_INTERNAL_ERROR))

\* C14: the candidate path built for a wildcard request has the chosen root
\* as its prefix, also for a request path that begins with "/".
C14_JoinedUnderRoot ==
    \A r \in Reqs :
        (InFlight(r) /\ req[r].route = "wildcard") =>
            starts_with(req[r].file_path, req[r].base_dir)

\* C15: every response with status 500 is exactly the built-in
\* internal-error page: its body is never content read from disk.
C15_BuiltIn500 ==
    \A r \in Reqs :
        (Finished(r) /\ req[r].resp.status = 500) =>
            req[r].resp = Response(500, "text/html", BuiltIn(HTML_INTERNAL_ERROR))

\* a 500 after a failed read, with a not-found.html in the root
C15_Witness ==
    \E r \in Reqs :
        /\ Finished(r)
        /\ req[r].cause = "read_fail"
        /\ exists(fs, not_found_html(req[r]))
        /\ req[r].resp.status = 500
        /\ req[r].resp.body = BuiltIn(HTML_INTERNAL_ERROR)

\* the response of the request when it runs alone on the filesystem f
AloneResponse(f, q) ==
    IF q.route = "index" THEN IndexResponse(f) ELSE WildcardResponse(f, q.path)

\* the response of a finished request is the one its path has alone
C16_FunctionOfPath ==
    \A r \in Reqs : Finished(r) => req[r].resp = AloneResponse(fs, req[r])

\* a step of a request writes neither the filesystem nor another request,
\* and depends on the request's own state and the filesystem only
C16_OwnStateOnly ==
    \A r \in Reqs :
        req'[r] # req[r] =>
            /\ fs' = fs
            /\ \A o \in Reqs \ {r} : req'[o] = req[o]
            /\ (InFlight(r) /\ ~Finished(r)) => req'[r] = StepReq(fs, req[r])

\* C16: requests are independent: a handler writes neither the filesystem
\* nor the state of another request, and on a fixed filesystem every
\* interleaving of two requests gives each of them the response its path
\* gets when it runs alone.
C16_Independent == []C16_FunctionOfPath /\ [][C16_OwnStateOnly]_vars

\* two requests for the same path in flight together, one answered, the
\* other at its read: the answer is the one the path gets alone
C16_Witness ==
    /\ Finished(1) /\ req[2].pc = "read"
    /\ req[1].route = "wildcard" /\ req[2].path = req[1].path
    /\ req[1].resp.status = 200
    /\ req[1].resp = WildcardResponse(fs, req[2].path)

IndexNames == {<<Seg("index")>>, <<Seg2("index", "html")>>}

\* C17: with the pages root in place, "/" is the only special-cased path:
\* when <pages>/index.html is absent, /index and /index.html end in 404 and
\* "/" in the default landing page; when index.html is a readable file,
\* the three requests end in 200 with the same body.
C17_OnlyRootSpecial ==
    \A r \in Reqs :
        (Finished(r) /\ is_dir(fs, pages_dir)) =>
            LET named == req[r].route = "wildcard" /\ req[r].path \in IndexNames
                root == req[r].route = "index"
            IN  /\ (~exists(fs, IndexPath) /\ root) =>
                       req[r].resp = DefaultIndexResponse
                /\ (~exists(fs, IndexPath) /\ named) =>
                       req[r].resp.status = 404
                /\ (read_to_string(fs, IndexPath) /\ (root \/ named)) =>
                       /\ req[r].resp.status = 200
                       /\ req[r].resp = IndexResponse(fs)

\* C18: the body of every 404 response is the built-in not-found page or
\* the content of a file that lies inside the canonicalized root of the
\* request.
C18_FallbackInsideRoot ==
    \A r \in Reqs :
        (Finished(r) /\ req[r].resp.status = 404) =>
            \/ req[r].resp.body = BuiltIn(HTML_NOT_FOUND)
            \/ /\ req[r].resp.body.src = "disk"
               /\ canonicalize(fs, req[r].base_dir).ok
               /\ starts_with(req[r].resp.body.loc,
                              canonicalize(fs, req[r].base_dir).loc)

====
